---- MODULE Spec2Model ----
(***************************************************************************)
(* A model of the Baseball Manager API (backend/server.js) over the        *)
(* schema of backend/init.sql.  Every request is a process; each           *)
(* "await pool.query(...)" of a handler is one atomic step on the tables,  *)
(* and requests interleave between their steps.  req holds the requests in *)
(* flight, sent the answer the last step sent, if it sent one.  Text       *)
(* values are sequences of one-character strings so that trim(),           *)
(* normalizeEmail() and isLength() are computed, not assumed.  Requests    *)
(* are the ones the rate limiter admits.                                   *)
(***************************************************************************)
EXTENDS Integers, Sequences, FiniteSets, TLC

VARIABLES users, teams, team_memberships, players, games, player_stats,
          media, scouting_reports, users_id_seq, players_id_seq, now, session,
          server, teams_id_seq, games_id_seq, req, sent

tables == <<users, teams, team_memberships, players, games, player_stats,
            media, scouting_reports, users_id_seq, players_id_seq>>
vars == <<users, teams, team_memberships, players, games, player_stats,
          media, scouting_reports, users_id_seq, players_id_seq, now, session,
          server, teams_id_seq, games_id_seq, req, sent>>
\* What no request handler writes: the clock, the answer a client has kept,
\* the server process's position in startServer, and the sequences of teams
\* and games, the tables no route inserts into.
outside == <<now, session, server, teams_id_seq, games_id_seq>>

(* ------------------------------ bounds -------------------------------- *)
\* Requests stop drawing from users_id_seq and players_id_seq at these values.
MaxUserId == 6
MaxPlayerId == 4
\* The clock, in days, never passes this value.
MaxNow == 16
\* The server process is started at most this many times.
MaxStarts == 2
\* The slots of the requests in flight at one time.
Procs == {1, 2}

(* --------------------------- text helpers ----------------------------- *)
IsSpace(c) == c = " "

RECURSIVE TrimLeft(_)
TrimLeft(s) == IF s # <<>> /\ IsSpace(Head(s)) THEN TrimLeft(Tail(s)) ELSE s

RECURSIVE TrimRight(_)
TrimRight(s) ==
    IF s # <<>> /\ IsSpace(s[Len(s)]) THEN TrimRight(SubSeq(s, 1, Len(s) - 1)) ELSE s

\* express-validator's trim() sanitizer.
Trim(s) == TrimRight(TrimLeft(s))

ToLower(c) ==
    CASE c = "A" -> "a"
      [] c = "B" -> "b"
      [] c = "X" -> "x"
      [] OTHER -> c

\* express-validator's normalizeEmail() (all_lowercase): the address in lower case.
NormalizeEmail(e) == [i \in DOMAIN e |-> ToLower(e[i])]

\* express-validator's isEmail(): one "@", with text on both sides and no blank.
IsEmail(e) ==
    /\ Cardinality({i \in DOMAIN e : e[i] = "@"}) = 1
    /\ e # <<>> /\ e[1] # "@" /\ e[Len(e)] # "@"
    /\ \A i \in DOMAIN e : ~IsSpace(e[i])

(* --------------------------- program constants ------------------------ *)
\* body('name').trim().isLength({ min: 2 })
MinNameLen == 2
\* body('password').isLength({ min: 6 }) on register, { min: 1 } on login
MinRegisterPasswordLen == 6
MinLoginPasswordLen == 1
\* body('code').trim().isLength({ min: 1 })
MinCodeLen == 1
\* jwt.sign(..., { expiresIn: '7d' }), in days
ExpiresIn == 7
\* bcrypt.hash(password, 10)
BcryptRounds == 10

RegisterRolesMutant == {"player", "parent", "admin"}
\* body('role').isIn(['player', 'parent'])
RegisterRoles == {"player", "parent"}

(* ------------------------------ inputs -------------------------------- *)
CoachEmail == <<"c", "@", "t">>
PlayerEmail == <<"p", "@", "t">>
ParentEmail == <<"q", "@", "t">>
Coach2Email == <<"d", "@", "t">>
TEAM123 == <<"T", "1">>
TEAM456 == <<"T", "2">>

ValidName == <<" ", "A", "l">>
RawEmails == {<<"a", "@", "x">>, <<"A", "@", "X">>, CoachEmail}
RawCodes == {TEAM123, <<" ", "T", "1", " ">>, TEAM456, <<"N", "O">>}
LoginPasswords == {"secret1", "password", "wrong"}

Body(name, email, password, code, role) ==
    [name |-> name, email |-> email, password |-> password, code |-> code, role |-> role]

\* Request bodies of POST /api/auth/register: the well-formed ones, and one
\* that breaks each validator.
RegisterBodies ==
    {Body(ValidName, e, "secret1", c, "player") : e \in RawEmails, c \in RawCodes}
    \cup {Body(ValidName, <<"a", "@", "x">>, "secret1", TEAM456, "parent"),
          Body(<<" ", "A", " ">>, <<"a", "@", "x">>, "secret1", TEAM123, "player"),
          Body(ValidName, <<"a", "x">>, "secret1", TEAM123, "player"),
          Body(ValidName, <<"a", "@", "x">>, "short", TEAM123, "player"),
          Body(ValidName, <<"a", "@", "x">>, "secret1", <<" ">>, "player"),
          Body(ValidName, <<"a", "@", "x">>, "secret1", TEAM123, "admin")}

\* Request bodies of POST /api/auth/login.
LoginBodies ==
    {[email |-> e, password |-> pw] : e \in RawEmails, pw \in LoginPasswords}
    \cup {[email |-> <<"a", "x">>, password |-> "password"],
          [email |-> CoachEmail, password |-> ""]}

(* ---------------------------- bcrypt, jwt ----------------------------- *)
Salts == {"salt"}
\* bcrypt.hash: a digest that embeds its cost and salt.
BcryptHash(password, salt) ==
    [rounds |-> BcryptRounds, salt |-> salt, digest |-> <<salt, password>>]
BcryptCompareMutant(password, hash) == hash.digest = <<password>>
\* bcrypt.compare: re-hash with the digest's own salt and compare.
BcryptCompare(password, hash) ==
    BcryptHash(password, hash.salt).digest = hash.digest

Secret == "JWT_SECRET"
\* jwt.sign({ userId, role }, secret, { expiresIn: '7d' }) at time iat.
JwtSign(userId, role, iat) ==
    [form |-> "jwt", userId |-> userId, role |-> role, iat |-> iat,
     exp |-> iat + ExpiresIn, sig |-> Secret]
JwtVerifyFailsMutant(token, t) == token.form # "jwt" \/ token.sig # Secret
\* jwt.verify: the error cases of a token at time t.
JwtVerifyFails(token, t) ==
    \/ token.form # "jwt"
    \/ token.sig # Secret
    \/ t >= token.exp

NoToken == [form |-> "none"]
Garbage == [form |-> "garbage"]
\* The tokens a client can hold: one the server signed for a user row today,
\* one it signed ExpiresIn + 1 days ago, one with the signature of another
\* key, and text that is no token.
ClientTokens ==
    {JwtSign(u.id, u.role, now) : u \in users}
    \cup {JwtSign(1, "admin", now - ExpiresIn - 1),
          [JwtSign(1, "admin", now) EXCEPT !.sig = "other"],
          Garbage}

\* The Authorization header: absent, "Bearer" with nothing after it, or "Bearer <token>".
Headers ==
    {[present |-> FALSE, token |-> NoToken], [present |-> TRUE, token |-> NoToken]}
        \cup {[present |-> TRUE, token |-> t] : t \in ClientTokens}

\* The headers of the roster and read requests: none, an expired token, and
\* every user's valid token.
SomeHeaders ==
    {[present |-> FALSE, token |-> NoToken],
     [present |-> TRUE, token |-> JwtSign(1, "admin", now - ExpiresIn - 1)]}
        \cup {[present |-> TRUE, token |-> JwtSign(u.id, u.role, now)] : u \in users}

\* The headers of the roster and scouting requests: none, and the valid tokens
\* of users 1 and 2: the admin of team 1 and a member of it who is not its
\* admin, neither of them a member of team 2.
Callers == {1, 2}
CallerHeaders ==
    {[present |-> FALSE, token |-> NoToken]}
        \cup {[present |-> TRUE, token |-> JwtSign(u.id, u.role, now)] :
                u \in {x \in users : x.id \in Callers}}

\* authenticateToken: 401 without a token, 403 when jwt.verify fails, otherwise
\* req.user is the payload.
authenticateToken(h, t) ==
    IF ~h.present \/ h.token = NoToken
    THEN [ok |-> FALSE, status |-> 401, userId |-> 0, role |-> ""]
    ELSE IF JwtVerifyFails(h.token, t)
         THEN [ok |-> FALSE, status |-> 403, userId |-> 0, role |-> ""]
         ELSE [ok |-> TRUE, status |-> 200, userId |-> h.token.userId,
               role |-> h.token.role]

(* ----------------------------- requests ------------------------------- *)
NoData == [none |-> TRUE]
Idle == [op |-> "none"]
NoAnswer == [op |-> "none"]

\* res.status(s).json({ error: e }) or res.status(s).json(d), with the request
\* r it answers.
Answer(r, s, e, d) == [res |-> [status |-> s, error |-> e, data |-> d]] @@ r

\* A new request takes the first slot that holds no request in flight.
Free(p) == req[p] = Idle /\ \A q \in Procs : q < p => req[q] # Idle
At(p, op, pc) == req[p].op = op /\ req[p].pc = pc

\* The step answers the request r of slot p.
Finish(p, r, s, e, d) ==
    /\ req' = [req EXCEPT ![p] = Idle]
    /\ sent' = Answer(r, s, e, d)
\* The step leaves the request of slot p in flight, as r.
Continue(p, r) ==
    /\ req' = [req EXCEPT ![p] = r]
    /\ sent' = NoAnswer
\* The step answers a request before its handler awaits anything.
Reply(r, s, e, d) ==
    /\ req' = req
    /\ sent' = Answer(r, s, e, d)

(* ------------------------------ queries ------------------------------- *)
UsersByEmail(email) == {u \in users : u.email = email}
UsersById(id) == {u \in users : u.id = id}
TeamsByInviteCodeMutant(code) == teams
\* SELECT id FROM teams WHERE invite_code = $1
TeamsByInviteCode(code) == {t \in teams : t.invite_code = code}
PublicUser(u) == [id |-> u.id, name |-> u.name, email |-> u.email, role |-> u.role]

(* ------------------------- POST /api/auth/login ----------------------- *)
LoginUnknownUserAnswerMutant(r) == Answer(r, 404, "User not found", NoData)
\* if (userResult.rows.length === 0)
LoginUnknownUserAnswer(r) == Answer(r, 401, "Invalid credentials", NoData)
\* if (!isValidPassword)
LoginBadPasswordAnswer(r) == Answer(r, 401, "Invalid credentials", NoData)

LoginMutant ==
    /\ sent' = Answer([op |-> "login", user |-> 0, valid |-> TRUE, found |-> "ok",
                       in |-> [email |-> CoachEmail, password |-> "password"]],
                      200, "", NoData)
    /\ team_memberships' = team_memberships \cup
           {[user_id |-> 1, team_id |-> 2, role |-> "admin"]}
    /\ UNCHANGED <<users, teams, players, games, player_stats, media,
                   scouting_reports, users_id_seq, players_id_seq, outside, req>>
\* The validators of the route, validationResult(req), the SELECT by email,
\* bcrypt.compare and jwt.sign: one table access.  found records which branch
\* answered.
Login ==
    /\ \E b \in LoginBodies :
         LET email == NormalizeEmail(b.email)
             r == [op |-> "login", user |-> 0, valid |-> TRUE,
                   in |-> [email |-> email, password |-> b.password]]
             rows == UsersByEmail(email)
         IN  IF ~IsEmail(b.email) \/ Len(b.password) < MinLoginPasswordLen
             THEN sent' = Answer([r EXCEPT !.valid = FALSE], 400, "errors", NoData)
             ELSE IF rows = {}
             THEN sent' = LoginUnknownUserAnswer(r @@ [found |-> "no_user"])
             ELSE \E u \in rows :
                    IF ~BcryptCompare(b.password, u.password_hash)
                    THEN sent' = LoginBadPasswordAnswer(r @@ [found |-> "bad_password"])
                    ELSE sent' = Answer(r @@ [found |-> "ok"], 200, "",
                                        [user |-> PublicUser(u),
                                         token |-> JwtSign(u.id, u.role, now)])
    /\ UNCHANGED <<tables, outside, req>>

(* ------------------------ GET /api/auth/profile ----------------------- *)
\* The answer of authenticateToken when it does not call next(): res.sendStatus.
\* token records whether a token came with the request.
RejectedMutant(op, a) ==
    Answer([op |-> op, user |-> 0, token |-> IF a.status = 401 THEN "missing" ELSE "invalid"],
           IF a.status = 401 THEN 200 ELSE a.status, "", NoData)
Rejected(op, a) ==
    Answer([op |-> op, user |-> 0, token |-> IF a.status = 401 THEN "missing" ELSE "invalid"],
           a.status, "", NoData)

Reject(op, a) ==
    /\ req' = req
    /\ sent' = Rejected(op, a)

\* SELECT id, name, email, role FROM users WHERE id = $1
ProfileWith(hs) ==
    /\ \E h \in hs :
         LET a == authenticateToken(h, now)
             r == [op |-> "profile", user |-> a.userId, role |-> a.role, token |-> "ok"]
             rows == UsersById(a.userId)
         IN  IF ~a.ok THEN sent' = Rejected("profile", a)
             ELSE IF rows = {} THEN sent' = Answer(r, 404, "User not found", NoData)
             ELSE \E u \in rows : sent' = Answer(r, 200, "", [user |-> PublicUser(u)])
    /\ UNCHANGED <<tables, outside, req>>

Profile == ProfileWith(Headers)

(* ------------------------------ outside ------------------------------- *)
\* A client keeps the body of the last answer when it carries a token: the
\* { user, token } of a login or a registration.
Keep ==
    /\ sent.op \in {"login", "register"}
    /\ sent.res.status \in {200, 201}
    /\ session' = sent.res.data
    /\ UNCHANGED <<tables, now, server, teams_id_seq, games_id_seq, req, sent>>

\* The client sends the token it kept as "Authorization: Bearer <token>".
ProfileHeld ==
    /\ session # NoData
    /\ ProfileWith({[present |-> TRUE, token |-> session.token]})

\* A day passes.
Tick ==
    /\ now < MaxNow
    /\ now' = now + 1
    /\ UNCHANGED <<tables, session, server, teams_id_seq, games_id_seq, req, sent>>

(* ----------------------- POST /api/auth/register ---------------------- *)
Registering == {q \in Procs : req[q].op = "register"}

\* The validators and sanitizers of the route, validationResult(req), and
\* SELECT id FROM teams WHERE invite_code = $1.  teamId and userId are the
\* handler's teamId and user.id (0 before they are set); emailTaken records
\* whether the email had a user row when the request arrived.
RegisterStart(p) ==
    /\ Free(p)
    /\ users_id_seq + Cardinality(Registering) < MaxUserId
    /\ \E b \in RegisterBodies :
         LET r == [op |-> "register", pc |-> "select_user", user |-> 0, valid |-> TRUE,
                   in |-> [name |-> Trim(b.name), email |-> NormalizeEmail(b.email),
                           password |-> b.password, code |-> Trim(b.code), role |-> b.role],
                   teamId |-> 0, userId |-> 0,
                   emailTaken |-> UsersByEmail(NormalizeEmail(b.email)) # {}]
             rows == TeamsByInviteCode(r.in.code)
         IN  IF \/ Len(Trim(b.name)) < MinNameLen
                \/ ~IsEmail(b.email)
                \/ Len(b.password) < MinRegisterPasswordLen
                \/ Len(Trim(b.code)) < MinCodeLen
                \/ b.role \notin RegisterRoles
             THEN Reply([r EXCEPT !.valid = FALSE], 400, "errors", NoData)
             ELSE IF rows = {}
             THEN Reply(r, 400, "Invalid registration code", NoData)
             ELSE \E t \in rows : Continue(p, [r EXCEPT !.teamId = t.id])
    /\ UNCHANGED <<tables, outside>>

\* SELECT id FROM users WHERE email = $1
RegisterSelectUser(p) ==
    /\ At(p, "register", "select_user")
    /\ LET r == req[p]
       IN  IF UsersByEmail(r.in.email) # {}
           THEN Finish(p, r, 400, "User already exists", NoData)
           ELSE Continue(p, [r EXCEPT !.pc = "insert_user"])
    /\ UNCHANGED <<tables, outside>>

\* users.email is UNIQUE
UsersEmailUniqueMutant(email) == TRUE
UsersEmailUnique(email) == UsersByEmail(email) = {}

\* bcrypt.hash, then INSERT INTO users ... RETURNING.  The sequence value is
\* drawn before the UNIQUE constraint rejects the row; the rejection is caught
\* by the handler's catch.
RegisterInsertUser(p) ==
    /\ At(p, "register", "insert_user")
    /\ LET r == req[p]
           id == users_id_seq + 1
       IN  /\ users_id_seq' = id
           /\ IF UsersEmailUnique(r.in.email)
              THEN /\ \E salt \in Salts :
                        users' = users \cup
                            {[id |-> id, name |-> r.in.name, email |-> r.in.email,
                              password_hash |-> BcryptHash(r.in.password, salt),
                              role |-> r.in.role]}
                   /\ Continue(p, [r EXCEPT !.pc = "insert_membership", !.userId = id])
              ELSE /\ users' = users
                   /\ Finish(p, r, 500, "Registration failed", NoData)
    /\ UNCHANGED <<teams, team_memberships, players, games, player_stats, media,
                   scouting_reports, players_id_seq, outside>>

\* INSERT INTO team_memberships, then jwt.sign and the 201 answer.
RegisterInsertMembership(p) ==
    /\ At(p, "register", "insert_membership")
    /\ LET r == req[p]
           u == CHOOSE u \in users : u.id = r.userId
       IN  /\ team_memberships' = team_memberships \cup
                  {[user_id |-> r.userId, team_id |-> r.teamId, role |-> r.in.role]}
           /\ Finish(p, r, 201, "",
                     [user |-> PublicUser(u), token |-> JwtSign(u.id, u.role, now)])
    /\ UNCHANGED <<users, teams, players, games, player_stats, media,
                   scouting_reports, users_id_seq, players_id_seq, outside>>

(* ------------------------------- reads -------------------------------- *)
MemberTeams(userId) == {m.team_id : m \in {x \in team_memberships : x.user_id = userId}}

\* SELECT t.* FROM teams t JOIN team_memberships tm ... WHERE tm.user_id = $1
SelectTeams(userId) == {t \in teams : t.id \in MemberTeams(userId)}
SelectPlayersMutant(userId) == players
\* SELECT p.* FROM players p JOIN teams t JOIN team_memberships tm ...
SelectPlayers(userId) ==
    {pl \in players : \E t \in teams : pl.team_id = t.id /\ t.id \in MemberTeams(userId)}
\* SELECT g.* FROM games g JOIN teams t JOIN team_memberships tm ...
SelectGames(userId) ==
    {g \in games : \E t \in teams : g.team_id = t.id /\ t.id \in MemberTeams(userId)}
\* SELECT ps.* FROM player_stats ps JOIN players p JOIN teams t JOIN team_memberships tm ...
SelectStats(userId) ==
    {ps \in player_stats :
        \E pl \in players, t \in teams :
            ps.player_id = pl.id /\ pl.team_id = t.id /\ t.id \in MemberTeams(userId)}
\* SELECT m.* FROM media m JOIN teams t JOIN team_memberships tm ...
SelectMedia(userId) ==
    {m \in media : \E t \in teams : m.team_id = t.id /\ t.id \in MemberTeams(userId)}

\* A GET route behind authenticateToken whose handler runs one SELECT.
Get(op, rows) ==
    /\ \E h \in SomeHeaders :
         LET a == authenticateToken(h, now)
         IN  IF ~a.ok THEN sent' = Rejected(op, a)
             ELSE sent' = Answer([op |-> op, user |-> a.userId, token |-> "ok"],
                                 200, "", rows[a.userId])
    /\ UNCHANGED <<tables, outside, req>>

UserIds == 0..MaxUserId
GetTeams == Get("teams", [u \in UserIds |-> SelectTeams(u)])
GetPlayers == Get("players", [u \in UserIds |-> SelectPlayers(u)])
GetGames == Get("games", [u \in UserIds |-> SelectGames(u)])
GetStats == Get("stats", [u \in UserIds |-> SelectStats(u)])
GetMedia == Get("media", [u \in UserIds |-> SelectMedia(u)])

(* ------------------------------ players ------------------------------- *)
\* body('jerseyNumber').isInt({ min: 0, max: 999 })
MaxJersey == 999
Positions == {"Pitcher", "Catcher", "First Base", "Second Base", "Third Base",
              "Shortstop", "Left Field", "Center Field", "Right Field"}
PlayerRoles == {"Starter", "Bench", "Pitcher"}

PlayerBody(teamId, name, jerseyNumber, position, role) ==
    [teamId |-> teamId, name |-> name, jerseyNumber |-> jerseyNumber,
     position |-> position, role |-> role]

\* The validators of POST /api/players and PUT /api/players/:id.
PlayerBodyValid(b) ==
    /\ Len(Trim(b.name)) >= MinNameLen
    /\ b.jerseyNumber \in 0..MaxJersey
    /\ b.position \in Positions
    /\ b.role \in PlayerRoles

\* Request bodies of POST /api/players; team 3 does not exist.
CreateBodies ==
    {PlayerBody(t, ValidName, j, "Pitcher", "Starter") : t \in {1, 2}, j \in {7, 12}}
    \cup {PlayerBody(3, ValidName, 7, "Pitcher", "Starter"),
          PlayerBody(2, ValidName, MaxJersey + 1, "Pitcher", "Starter")}
\* Request bodies of PUT /api/players/:id.
UpdateBodies ==
    {PlayerBody(0, ValidName, j, "Catcher", "Bench") : j \in {7, 12}}
    \cup {PlayerBody(0, ValidName, 7, "Catcher", "Captain")}
PlayerIds == 1..MaxPlayerId

\* SELECT id FROM teams WHERE id = $1 AND admin_id = $2
TeamByAdminMutant(teamId, userId) ==
    {t \in teams : t.id = teamId /\ t.id \in MemberTeams(userId)}
TeamByAdmin(teamId, userId) == {t \in teams : t.id = teamId /\ t.admin_id = userId}

\* SELECT id FROM players WHERE team_id = $1 AND jersey_number = $2
JerseyTakenMutant(teamId, jerseyNumber) ==
    {pl \in players : pl.jersey_number = jerseyNumber}
JerseyTaken(teamId, jerseyNumber) ==
    {pl \in players : pl.team_id = teamId /\ pl.jersey_number = jerseyNumber}

JerseyTakenByOtherMutant(teamId, jerseyNumber, playerId) ==
    JerseyTaken(teamId, jerseyNumber)
\* SELECT id FROM players WHERE team_id = $1 AND jersey_number = $2 AND id != $3
JerseyTakenByOther(teamId, jerseyNumber, playerId) ==
    {pl \in JerseyTaken(teamId, jerseyNumber) : pl.id # playerId}

PlayerWithAdminMutant(playerId) ==
    {[player |-> pl, admin_id |-> 2] : pl \in {x \in players : x.id = playerId}}
\* SELECT p.*, t.admin_id FROM players p JOIN teams t ON p.team_id = t.id WHERE p.id = $1
PlayerWithAdmin(playerId) ==
    {[player |-> pl, admin_id |-> t.admin_id] :
        pl \in {x \in players : x.id = playerId},
        t \in {y \in teams : \E x \in players : x.id = playerId /\ x.team_id = y.id}}

PlayersUniqueMutant(rows) == TRUE
\* players has UNIQUE(team_id, jersey_number)
PlayersUnique(rows) ==
    \A a, b \in rows :
        (a.team_id = b.team_id /\ a.jersey_number = b.jersey_number) => a.id = b.id

Creating == {q \in Procs : req[q].op = "create_player"}

\* POST /api/players: authenticateToken, validationResult(req) and the team
\* check.
CreatePlayerStart(p) ==
    /\ Free(p)
    /\ players_id_seq + Cardinality(Creating) < MaxPlayerId
    /\ \E h \in CallerHeaders :
         LET a == authenticateToken(h, now)
         IN  IF ~a.ok THEN Reject("create_player", a)
             ELSE \E b \in CreateBodies :
               LET r == [op |-> "create_player", pc |-> "jersey_check",
                         user |-> a.userId, token |-> "ok", valid |-> TRUE,
                         in |-> [teamId |-> b.teamId, jerseyNumber |-> b.jerseyNumber]]
               IN  IF ~PlayerBodyValid(b)
                   THEN Reply([op |-> "create_player", user |-> a.userId, token |-> "ok",
                               valid |-> FALSE], 400, "errors", NoData)
                   ELSE IF TeamByAdmin(b.teamId, a.userId) = {}
                   THEN Reply(r, 403, "Not authorized to add players to this team", NoData)
                   ELSE Continue(p, r)
    /\ UNCHANGED <<tables, outside>>

CreatePlayerJerseyCheck(p) ==
    /\ At(p, "create_player", "jersey_check")
    /\ LET r == req[p]
       IN  IF JerseyTaken(r.in.teamId, r.in.jerseyNumber) # {}
           THEN Finish(p, r, 400, "Jersey number already taken", NoData)
           ELSE Continue(p, [r EXCEPT !.pc = "insert"])
    /\ UNCHANGED <<tables, outside>>

\* INSERT INTO players ... RETURNING *; a row the UNIQUE constraint rejects
\* ends in the handler's catch.
CreatePlayerInsert(p) ==
    /\ At(p, "create_player", "insert")
    /\ LET r == req[p]
           row == [id |-> players_id_seq + 1, team_id |-> r.in.teamId,
                   jersey_number |-> r.in.jerseyNumber]
       IN  /\ players_id_seq' = players_id_seq + 1
           /\ IF PlayersUnique(players \cup {row})
              THEN /\ players' = players \cup {row}
                   /\ Finish(p, r, 201, "", row)
              ELSE /\ players' = players
                   /\ Finish(p, r, 500, "Failed to add player", NoData)
    /\ UNCHANGED <<users, teams, team_memberships, games, player_stats, media,
                   scouting_reports, users_id_seq, outside>>

\* PUT /api/players/:id: authenticateToken, validationResult(req) and the
\* player check.  teamId and adminId are playerCheck.rows[0].team_id and
\* .admin_id (0 when no row came back).
UpdatePlayerStart(p) ==
    /\ Free(p)
    /\ \E h \in CallerHeaders :
         LET a == authenticateToken(h, now)
         IN  IF ~a.ok THEN Reject("update_player", a)
             ELSE \E b \in UpdateBodies :
               IF ~PlayerBodyValid(b)
               THEN Reply([op |-> "update_player", user |-> a.userId, token |-> "ok",
                           valid |-> FALSE], 400, "errors", NoData)
               ELSE \E id \in PlayerIds :
                 LET rows == PlayerWithAdmin(id)
                     r == [op |-> "update_player", pc |-> "jersey_check",
                           user |-> a.userId, token |-> "ok", valid |-> TRUE,
                           in |-> [id |-> id, jerseyNumber |-> b.jerseyNumber],
                           teamId |-> 0, adminId |-> 0]
                 IN  IF rows = {}
                     THEN Reply(r, 404, "Player not found", NoData)
                     ELSE \E row \in rows :
                            LET f == [r EXCEPT !.teamId = row.player.team_id,
                                               !.adminId = row.admin_id]
                            IN  IF row.admin_id # a.userId
                                THEN Reply(f, 403, "Not authorized to edit this player", NoData)
                                ELSE Continue(p, f)
    /\ UNCHANGED <<tables, outside>>

UpdatePlayerJerseyCheck(p) ==
    /\ At(p, "update_player", "jersey_check")
    /\ LET r == req[p]
       IN  IF JerseyTakenByOther(r.teamId, r.in.jerseyNumber, r.in.id) # {}
           THEN Finish(p, r, 400, "Jersey number already taken", NoData)
           ELSE Continue(p, [r EXCEPT !.pc = "update"])
    /\ UNCHANGED <<tables, outside>>

NoRow == [id |-> 0]
\* UPDATE players SET ... WHERE id = $6 RETURNING *, and res.json(result.rows[0]):
\* with no row left to update, rows[0] is undefined and the answer is still 200.
UpdatePlayerUpdate(p) ==
    /\ At(p, "update_player", "update")
    /\ LET r == req[p]
           old == {pl \in players : pl.id = r.in.id}
           new == {[pl EXCEPT !.jersey_number = r.in.jerseyNumber] : pl \in old}
           after == (players \ old) \cup new
       IN  IF PlayersUnique(after)
           THEN /\ players' = after
                /\ IF new = {} THEN Finish(p, r, 200, "", NoRow)
                   ELSE \E row \in new : Finish(p, r, 200, "", row)
           ELSE /\ players' = players
                /\ Finish(p, r, 500, "Failed to update player", NoData)
    /\ UNCHANGED <<users, teams, team_memberships, games, player_stats, media,
                   scouting_reports, users_id_seq, players_id_seq, outside>>

\* DELETE /api/players/:id: authenticateToken and the player check.
DeletePlayerStart(p) ==
    /\ Free(p)
    /\ \E h \in CallerHeaders :
         LET a == authenticateToken(h, now)
         IN  IF ~a.ok THEN Reject("delete_player", a)
             ELSE \E id \in PlayerIds :
               LET rows == PlayerWithAdmin(id)
                   r == [op |-> "delete_player", pc |-> "delete",
                         user |-> a.userId, token |-> "ok", valid |-> TRUE,
                         in |-> [id |-> id], teamId |-> 0, adminId |-> 0]
               IN  IF rows = {}
                   THEN Reply(r, 404, "Player not found", NoData)
                   ELSE \E row \in rows :
                          LET f == [r EXCEPT !.teamId = row.player.team_id,
                                             !.adminId = row.admin_id]
                          IN  IF row.admin_id # a.userId
                              THEN Reply(f, 403, "Not authorized to delete this player", NoData)
                              ELSE Continue(p, f)
    /\ UNCHANGED <<tables, outside>>

OnDeleteCascadeMutant(rows, playerId) == rows
\* player_id INTEGER REFERENCES players(id) ON DELETE CASCADE: the rows of a
\* referencing table that are left when the player playerId is deleted.
OnDeleteCascade(rows, playerId) == {x \in rows : x.player_id # playerId}

\* DELETE FROM players WHERE id = $1; player_stats.player_id and
\* scouting_reports.player_id are ON DELETE CASCADE.
DeletePlayerDelete(p) ==
    /\ At(p, "delete_player", "delete")
    /\ LET r == req[p]
       IN  /\ players' = {pl \in players : pl.id # r.in.id}
           /\ player_stats' = OnDeleteCascade(player_stats, r.in.id)
           /\ scouting_reports' = OnDeleteCascade(scouting_reports, r.in.id)
           /\ Finish(p, r, 200, "Player deleted successfully", NoData)
    /\ UNCHANGED <<users, teams, team_memberships, games, media, users_id_seq,
                   players_id_seq, outside>>

(* -------------------------- scouting reports -------------------------- *)
\* The overall_grade column has CHECK (overall_grade >= 1 AND overall_grade <= 10).
MinGrade == 1
MaxGrade == 10
Grades == {MaxGrade - 1, MaxGrade, MaxGrade + 1}

\* SELECT p.*, tm.user_id FROM players p JOIN teams t JOIN team_memberships tm
\* WHERE p.id = $1 AND tm.user_id = $2
PlayerForMember(playerId, userId) ==
    {pl \in players :
        /\ pl.id = playerId
        /\ \E t \in teams, tm \in team_memberships :
             pl.team_id = t.id /\ t.id = tm.team_id /\ tm.user_id = userId}

\* POST /api/scouting-reports: authenticateToken and the player check.
ScoutingStart(p) ==
    /\ Free(p)
    /\ \E h \in CallerHeaders :
         LET a == authenticateToken(h, now)
         IN  IF ~a.ok THEN Reject("scouting", a)
             ELSE \E id \in PlayerIds, g \in Grades :
               LET r == [op |-> "scouting", pc |-> "upsert",
                         user |-> a.userId, token |-> "ok", valid |-> TRUE,
                         in |-> [playerId |-> id, overallGrade |-> g]]
               IN  IF PlayerForMember(id, a.userId) = {}
                   THEN Reply(r, 404, "Player not found or access denied", NoData)
                   ELSE Continue(p, r)
    /\ UNCHANGED <<tables, outside>>

UpsertMutant(rows, row) == rows \cup {row}
\* INSERT ... ON CONFLICT (player_id) DO UPDATE SET every column: the row of the
\* player, if there is one, is replaced.
Upsert(rows, row) == {sr \in rows : sr.player_id # row.player_id} \cup {row}

\* INSERT INTO scouting_reports ... ON CONFLICT (player_id) DO UPDATE SET ...
\* RETURNING *.  A grade outside the CHECK, or a player_id that references no
\* player any more, ends in the handler's catch.
ScoutingUpsert(p) ==
    /\ At(p, "scouting", "upsert")
    /\ LET r == req[p]
           row == [player_id |-> r.in.playerId, scout_id |-> r.user,
                   overall_grade |-> r.in.overallGrade]
       IN  IF /\ r.in.overallGrade \in MinGrade..MaxGrade
              /\ \E pl \in players : pl.id = r.in.playerId
           THEN /\ scouting_reports' = Upsert(scouting_reports, row)
                /\ Finish(p, r, 201, "", row)
           ELSE /\ scouting_reports' = scouting_reports
                /\ Finish(p, r, 500, "Failed to save scouting report", NoData)
    /\ UNCHANGED <<users, teams, team_memberships, players, games, player_stats,
                   media, users_id_seq, players_id_seq, outside>>

(* ------------------------------ startup ------------------------------- *)
\* let retries = 10
Retries == 10

\* The server process as startServer() begins: nothing probed, nothing seeded,
\* not listening.  starts counts the processes started so far.
Started(n) ==
    [pc |-> "probe", retries |-> Retries, probes |-> 0, connected |-> FALSE,
     seeded |-> FALSE, starts |-> n, adminId |-> 0, teamId |-> 0, members |-> {}]

At_(pc) == server.pc = pc
Goto(pc) == server' = [server EXCEPT !.pc = pc]

KeepsProbingMutant(retries) == retries >= 0
\* while (retries > 0)
KeepsProbing(retries) == retries > 0

\* await pool.query('SELECT 1') resolves: checkDatabaseConnection returns true
\* and startServer goes on to setupDemoData.
ProbeSucceeds ==
    /\ At_("probe")
    /\ server' = [server EXCEPT !.pc = "insert_users", !.probes = @ + 1,
                                !.connected = TRUE]
    /\ UNCHANGED <<tables, now, session, teams_id_seq, games_id_seq, req, sent>>

\* await pool.query('SELECT 1') rejects: retries-- and the 3000 ms timer.
ProbeFails ==
    /\ At_("probe")
    /\ server' = [server EXCEPT !.pc = "wait", !.probes = @ + 1,
                                !.retries = @ - 1]
    /\ UNCHANGED <<tables, now, session, teams_id_seq, games_id_seq, req, sent>>

\* The timer fires: the loop probes again, or checkDatabaseConnection returns
\* false and startServer calls process.exit(1).
ProbeAgain ==
    /\ At_("wait")
    /\ IF KeepsProbing(server.retries) THEN Goto("probe") ELSE Goto("exited")
    /\ UNCHANGED <<tables, now, session, teams_id_seq, games_id_seq, req, sent>>

\* The rows of the demo data, without their ids.
DemoUsers ==
    <<[name |-> <<"C", "J">>, email |-> CoachEmail, role |-> "admin"],
      [name |-> <<"M", "J">>, email |-> PlayerEmail, role |-> "player"],
      [name |-> <<"P", "S">>, email |-> ParentEmail, role |-> "parent"]>>
DemoJerseys == <<12, 7, 23>>
DemoGames == 2
SeedingPcs == {"insert_users", "select_admin", "insert_team", "select_team",
               "select_users", "insert_membership", "insert_players",
               "insert_games"}

\* setupDemoData returns; startServer goes on to app.listen.
Seeded(s) == [s EXCEPT !.pc = "listen", !.seeded = TRUE]

\* bcrypt.hash('password', 10), then INSERT INTO users ... three rows ... ON
\* CONFLICT (email) DO NOTHING.  Every proposed row draws from the sequence.
SeedInsertUsers ==
    /\ At_("insert_users")
    /\ \E salt \in Salts :
         users' = users \cup
             {[id |-> users_id_seq + i, name |-> DemoUsers[i].name,
               email |-> DemoUsers[i].email,
               password_hash |-> BcryptHash("password", salt),
               role |-> DemoUsers[i].role] :
              i \in {j \in DOMAIN DemoUsers : UsersByEmail(DemoUsers[j].email) = {}}}
    /\ users_id_seq' = users_id_seq + Len(DemoUsers)
    /\ Goto("select_admin")
    /\ UNCHANGED <<teams, team_memberships, players, games, player_stats, media,
                   scouting_reports, players_id_seq, now, session, teams_id_seq,
                   games_id_seq, req, sent>>

\* SELECT id FROM users WHERE email = 'coach@team.com'; if (adminId)
SeedSelectAdmin ==
    /\ At_("select_admin")
    /\ LET rows == UsersByEmail(CoachEmail)
       IN  IF rows = {} THEN server' = Seeded(server)
           ELSE \E u \in rows :
                  server' = [server EXCEPT !.pc = "insert_team", !.adminId = u.id]
    /\ UNCHANGED <<tables, now, session, teams_id_seq, games_id_seq, req, sent>>

\* INSERT INTO teams ... 'TEAM123' ON CONFLICT (invite_code) DO NOTHING
SeedInsertTeam ==
    /\ At_("insert_team")
    /\ teams_id_seq' = teams_id_seq + 1
    /\ teams' = IF TeamsByInviteCode(TEAM123) # {} THEN teams
                ELSE teams \cup {[id |-> teams_id_seq + 1, admin_id |-> server.adminId,
                                  invite_code |-> TEAM123]}
    /\ Goto("select_team")
    /\ UNCHANGED <<users, team_memberships, players, games, player_stats, media,
                   scouting_reports, users_id_seq, players_id_seq, now, session,
                   games_id_seq, req, sent>>

\* SELECT id FROM teams WHERE invite_code = 'TEAM123'; if (teamId)
SeedSelectTeam ==
    /\ At_("select_team")
    /\ LET rows == TeamsByInviteCode(TEAM123)
       IN  IF rows = {} THEN server' = Seeded(server)
           ELSE \E t \in rows :
                  server' = [server EXCEPT !.pc = "select_users", !.teamId = t.id]
    /\ UNCHANGED <<tables, now, session, teams_id_seq, games_id_seq, req, sent>>

\* SELECT id, role FROM users WHERE email IN ($1, $2, $3); the for loop begins.
SeedSelectUsers ==
    /\ At_("select_users")
    /\ LET rows == {[id |-> u.id, role |-> u.role] :
                      u \in {v \in users :
                               \E i \in DOMAIN DemoUsers : v.email = DemoUsers[i].email}}
       IN  server' = [server EXCEPT !.members = rows,
                         !.pc = IF rows = {} THEN "insert_players"
                                ELSE "insert_membership"]
    /\ UNCHANGED <<tables, now, session, teams_id_seq, games_id_seq, req, sent>>

\* One turn of the loop: INSERT INTO team_memberships ... ON CONFLICT (user_id,
\* team_id) DO NOTHING.  The rows come in the order the SELECT gave them, which
\* it does not promise.
SeedInsertMembership ==
    /\ At_("insert_membership")
    /\ \E u \in server.members :
         LET rest == server.members \ {u}
         IN  /\ team_memberships' =
                    IF \E tm \in team_memberships :
                           tm.user_id = u.id /\ tm.team_id = server.teamId
                    THEN team_memberships
                    ELSE team_memberships \cup
                           {[user_id |-> u.id, team_id |-> server.teamId, role |-> u.role]}
             /\ server' = [server EXCEPT !.members = rest,
                               !.pc = IF rest = {} THEN "insert_players"
                                      ELSE "insert_membership"]
    /\ UNCHANGED <<users, teams, players, games, player_stats, media,
                   scouting_reports, users_id_seq, players_id_seq, now, session,
                   teams_id_seq, games_id_seq, req, sent>>

\* INSERT INTO players ... three rows ... ON CONFLICT (team_id, jersey_number)
\* DO NOTHING
SeedInsertPlayers ==
    /\ At_("insert_players")
    /\ players' = players \cup
           {[id |-> players_id_seq + i, team_id |-> server.teamId,
             jersey_number |-> DemoJerseys[i]] :
            i \in {j \in DOMAIN DemoJerseys :
                     ~\E pl \in players : /\ pl.team_id = server.teamId
                                          /\ pl.jersey_number = DemoJerseys[j]}}
    /\ players_id_seq' = players_id_seq + Len(DemoJerseys)
    /\ Goto("insert_games")
    /\ UNCHANGED <<users, teams, team_memberships, games, player_stats, media,
                   scouting_reports, users_id_seq, now, session, teams_id_seq,
                   games_id_seq, req, sent>>

\* ON CONFLICT DO NOTHING names no constraint: a proposed row is dropped when
\* it violates any unique constraint of games, and the table has the primary
\* key on id alone.
GamesConflict(row) == \E g \in games : g.id = row.id

\* INSERT INTO games ... two rows ... ON CONFLICT DO NOTHING; then
\* setupDemoData returns.
SeedInsertGames ==
    /\ At_("insert_games")
    /\ games' = games \cup
           {row \in {[id |-> games_id_seq + i, team_id |-> server.teamId] :
                      i \in 1..DemoGames} : ~GamesConflict(row)}
    /\ games_id_seq' = games_id_seq + DemoGames
    /\ server' = Seeded(server)
    /\ UNCHANGED <<users, teams, team_memberships, players, player_stats, media,
                   scouting_reports, users_id_seq, players_id_seq, now, session,
                   teams_id_seq, req, sent>>

\* A pool.query of setupDemoData rejects: its catch logs the error and
\* setupDemoData returns.
SeedQueryThrows ==
    /\ server.pc \in SeedingPcs
    /\ server' = Seeded(server)
    /\ UNCHANGED <<tables, now, session, teams_id_seq, games_id_seq, req, sent>>

\* app.listen(PORT)
Listen ==
    /\ At_("listen")
    /\ Goto("listening")
    /\ UNCHANGED <<tables, now, session, teams_id_seq, games_id_seq, req, sent>>

\* The backend container is started again (restart: unless-stopped) over the
\* same database volume: a new process runs startServer().
Restart ==
    /\ server.starts < MaxStarts
    /\ server' = Started(server.starts + 1)
    /\ UNCHANGED <<tables, now, session, teams_id_seq, games_id_seq, req, sent>>

(* -------------------------------- Init -------------------------------- *)
\* The database after setupDemoData (Coach Johnson, Mike Johnson, Parent Smith
\* and the team TEAM123 with its memberships), with one player, one game and
\* their statistics and media on the team, and a second team, TEAM456, with its
\* own admin, player, game, statistics and media: no route creates a team, its
\* rows are inserted in the database.
Init ==
    /\ users = {[id |-> 1, name |-> <<"C", "J">>, email |-> CoachEmail,
                 password_hash |-> BcryptHash("password", "salt"), role |-> "admin"],
                [id |-> 2, name |-> <<"M", "J">>, email |-> PlayerEmail,
                 password_hash |-> BcryptHash("password", "salt"), role |-> "player"],
                [id |-> 3, name |-> <<"P", "S">>, email |-> ParentEmail,
                 password_hash |-> BcryptHash("password", "salt"), role |-> "parent"],
                [id |-> 4, name |-> <<"C", "2">>, email |-> Coach2Email,
                 password_hash |-> BcryptHash("password", "salt"), role |-> "admin"]}
    /\ teams = {[id |-> 1, admin_id |-> 1, invite_code |-> TEAM123],
                [id |-> 2, admin_id |-> 4, invite_code |-> TEAM456]}
    /\ team_memberships = {[user_id |-> 1, team_id |-> 1, role |-> "admin"],
                           [user_id |-> 2, team_id |-> 1, role |-> "player"],
                           [user_id |-> 3, team_id |-> 1, role |-> "parent"],
                           [user_id |-> 4, team_id |-> 2, role |-> "admin"]}
    /\ players = {[id |-> 1, team_id |-> 1, jersey_number |-> 12],
                  [id |-> 2, team_id |-> 2, jersey_number |-> 7]}
    /\ games = {[id |-> 1, team_id |-> 1], [id |-> 2, team_id |-> 2]}
    /\ player_stats = {[id |-> 1, player_id |-> 1, game_id |-> 1],
                       [id |-> 2, player_id |-> 2, game_id |-> 2]}
    /\ media = {[id |-> 1, team_id |-> 1], [id |-> 2, team_id |-> 2]}
    /\ scouting_reports = {}
    /\ users_id_seq = 4
    /\ players_id_seq = 2
    /\ now = ExpiresIn + 1
    /\ session = NoData
    /\ server = [Started(1) EXCEPT !.pc = "listening", !.probes = 1,
                                   !.connected = TRUE, !.seeded = TRUE]
    /\ teams_id_seq = 2
    /\ games_id_seq = 2
    /\ req = [p \in Procs |-> Idle]
    /\ sent = NoAnswer

\* The database as init.sql creates it, and the server process started for
\* the first time.
BootInit ==
    /\ users = {} /\ teams = {} /\ team_memberships = {} /\ players = {}
    /\ games = {} /\ player_stats = {} /\ media = {} /\ scouting_reports = {}
    /\ users_id_seq = 0 /\ players_id_seq = 0
    /\ teams_id_seq = 0 /\ games_id_seq = 0
    /\ now = ExpiresIn + 1
    /\ session = NoData
    /\ server = Started(1)
    /\ req = [p \in Procs |-> Idle]
    /\ sent = NoAnswer

(* ------------------------------- Spec --------------------------------- *)
Register(p) ==
    \/ RegisterStart(p)
    \/ RegisterSelectUser(p)
    \/ RegisterInsertUser(p)
    \/ RegisterInsertMembership(p)

\* Registration, login, profile and the member-scoped reads.
Next ==
    \/ Login
    \/ Profile
    \/ GetTeams
    \/ GetPlayers
    \/ GetGames
    \/ GetStats
    \/ GetMedia
    \/ \E p \in Procs : Register(p)

Spec == Init /\ [][Next]_vars

\* A client logs in, keeps what it got, and uses the token as days pass.
TokenNext ==
    \/ Login
    \/ Keep
    \/ ProfileHeld
    \/ Tick

TokenSpec == Init /\ [][TokenNext]_vars

\* Clients register, log in, keep what they got and ask for their profile.
JourneyNext ==
    \/ Login
    \/ Keep
    \/ ProfileHeld
    \/ \E p \in Procs : Register(p)

JourneySpec == Init /\ [][JourneyNext]_vars

\* A pool.query of a registration in flight rejects (the connection is lost,
\* the server restarts); the handler's catch answers 500.
RegisterQueryThrows(p) ==
    /\ req[p].op = "register"
    /\ Finish(p, req[p], 500, "Registration failed", NoData)
    /\ UNCHANGED <<tables, outside>>

\* Registration over a storage whose queries can fail.
FaultNext ==
    \E p \in Procs :
        \/ Register(p)
        \/ RegisterQueryThrows(p)

FaultSpec == Init /\ [][FaultNext]_vars

DeletePlayer(p) ==
    \/ DeletePlayerStart(p)
    \/ DeletePlayerDelete(p)

\* The roster: create, update and delete player.
RosterNext ==
    \E p \in Procs :
        \/ CreatePlayerStart(p)
        \/ CreatePlayerJerseyCheck(p)
        \/ CreatePlayerInsert(p)
        \/ UpdatePlayerStart(p)
        \/ UpdatePlayerJerseyCheck(p)
        \/ UpdatePlayerUpdate(p)
        \/ DeletePlayer(p)

RosterSpec == Init /\ [][RosterNext]_vars

\* Scouting reports, and the deletion of the players they are about.
ScoutNext ==
    \E p \in Procs :
        \/ ScoutingStart(p)
        \/ ScoutingUpsert(p)
        \/ DeletePlayer(p)

ScoutSpec == Init /\ [][ScoutNext]_vars

\* startServer: the probes of checkDatabaseConnection, setupDemoData, app.listen.
StartServer ==
    \/ ProbeSucceeds
    \/ ProbeFails
    \/ ProbeAgain
    \/ SeedInsertUsers
    \/ SeedSelectAdmin
    \/ SeedInsertTeam
    \/ SeedSelectTeam
    \/ SeedSelectUsers
    \/ SeedInsertMembership
    \/ SeedInsertPlayers
    \/ SeedInsertGames
    \/ SeedQueryThrows
    \/ Listen

BootNext ==
    \/ StartServer
    \/ Restart

\* The server is started, and started again, over a database that init.sql
\* created.  Every awaited query settles and the timer fires, so the process
\* takes its next step.
BootSpec == BootInit /\ [][BootNext]_vars /\ WF_vars(StartServer)

(* ------------------------------ claims -------------------------------- *)
\* The last step answered a request of kind op.
Sent(op) == sent.op = op
\* The last step answered a registration whose body passed the validators.
SentRegistration == Sent("register") /\ sent.valid
Answered(status, error) == sent.res.status = status /\ sent.res.error = error
HasMembership(userId, teamId) ==
    \E m \in team_memberships : m.user_id = userId /\ m.team_id = teamId
CodeKnown(code) == \E t \in teams : t.invite_code = code
EmailHasUser(email) == \E u \in users : u.email = email

\* C1: when a registration is answered, with success or with any error, the
\* user row it inserted exists if and only if the membership row binding that
\* user to the invite code's team exists.
C1_RegistrationAtomic ==
    SentRegistration =>
        ((\E u \in users : u.id = sent.userId)
            <=> (sent.teamId # 0 /\ HasMembership(sent.userId, sent.teamId)))

\* C2: a registration with a valid invite code whose email was free when it
\* arrived and was taken by a concurrent registration before it could insert
\* its user is answered 400 'User already exists'.
C2_DuplicateEmailSurfaced ==
    (/\ SentRegistration
     /\ CodeKnown(sent.in.code)
     /\ ~sent.emailTaken
     /\ sent.userId = 0
     /\ EmailHasUser(sent.in.email))
    => Answered(400, "User already exists")

(* The step answers a create, update or delete player request that carried a
   valid token and a body the validators accept. *)
PlayerMutationAnswered ==
    /\ sent'.op \in {"create_player", "update_player", "delete_player"}
    /\ sent'.token = "ok"
    /\ sent'.valid
(* The team the answered request is about, before the step: the target team of
   a create, the team of the player of an update or a delete. *)
OwningTeams ==
    IF sent'.op = "create_player"
    THEN {t \in teams : t.id = sent'.in.teamId}
    ELSE {t \in teams : \E pl \in players : pl.id = sent'.in.id /\ pl.team_id = t.id}
(* The rows that, before the step, hold the jersey number the answered request
   asks for in its team. *)
JerseyHolders ==
    IF sent'.op = "delete_player" THEN {}
    ELSE {pl \in players :
            /\ \E t \in OwningTeams : pl.team_id = t.id
            /\ pl.jersey_number = sent'.in.jerseyNumber
            /\ (sent'.op = "update_player" => pl.id # sent'.in.id)}
MutationApplied ==
    CASE sent'.op = "create_player" ->
            /\ sent'.res.status = 201
            /\ players' = players \cup {sent'.res.data}
            /\ sent'.res.data.team_id = sent'.in.teamId
            /\ sent'.res.data.jersey_number = sent'.in.jerseyNumber
      [] sent'.op = "update_player" ->
            /\ sent'.res.status = 200
            /\ \E pl \in players' :
                 pl.id = sent'.in.id /\ pl.jersey_number = sent'.in.jerseyNumber
      [] OTHER ->
            /\ sent'.res.status = 200
            /\ ~\E pl \in players' : pl.id = sent'.in.id
C3Step ==
    /\ players' # players =>
         /\ PlayerMutationAnswered
         /\ OwningTeams # {}
         /\ \A t \in OwningTeams : t.admin_id = sent'.user
         /\ \A pl \in (players \ players') \cup (players' \ players) :
              \E t \in OwningTeams : pl.team_id = t.id
    /\ (PlayerMutationAnswered /\ OwningTeams # {}) =>
         /\ (\E t \in OwningTeams : t.admin_id # sent'.user) =>
              (sent'.res.status = 403 /\ players' = players)
         /\ (\A t \in OwningTeams : t.admin_id = sent'.user) =>
              /\ sent'.res.status # 403
              /\ JerseyHolders = {} => MutationApplied
\* C3: a step changes the players table only when it answers a create, update
\* or delete player request whose token's user is the admin_id of the team of
\* the rows it changes; a well-formed request about an existing team or player
\* from any other authenticated user is answered 403 and changes nothing; the
\* same request from the team's admin is not answered 403 and, unless another
\* row of the team holds the jersey number, is answered 2xx and applied.
C3_PlayerMutationsAdminOnly == [][C3Step]_vars
\* A member of the player's team who is not its admin asked for an update or a
\* delete and got 403.
C3_Witness ==
    /\ sent.op \in {"update_player", "delete_player"}
    /\ sent.res.status = 403
    /\ HasMembership(sent.user, sent.teamId)
    /\ \E pl \in players : pl.id = sent.in.id

\* C4: a request to a protected endpoint whose bearer token is present but
\* does not verify is answered 401, like a request without a token.
C4_InvalidTokenUnauthenticated ==
    (sent # NoAnswer /\ "token" \in DOMAIN sent /\ sent.token = "invalid")
    => sent.res.status = 401

\* C5: scouting_reports is written only by the admin of the team that owns the
\* report's player; the request of any other authenticated user is rejected
\* and leaves no report.
C5_OnlyAdminWritesReports ==
    \A sr \in scouting_reports :
        \A pl \in players :
            pl.id = sr.player_id =>
                \E t \in teams : t.id = pl.team_id /\ t.admin_id = sr.scout_id

(* The step is the jersey check, or the INSERT, of the create request of slot p. *)
CreateStepAt(p, pc) ==
    /\ req[p].op = "create_player"
    /\ req[p].pc = pc
    /\ req'[p] # req[p]
TakenInTeam(teamId, jerseyNumber) ==
    \E pl \in players : pl.team_id = teamId /\ pl.jersey_number = jerseyNumber
C6Step ==
    \A p \in Procs :
        /\ CreateStepAt(p, "jersey_check") =>
             IF TakenInTeam(req[p].in.teamId, req[p].in.jerseyNumber)
             THEN /\ sent'.op = "create_player"
                  /\ sent'.res = [status |-> 400, error |-> "Jersey number already taken",
                                  data |-> NoData]
                  /\ players' = players
             ELSE /\ sent' = NoAnswer
                  /\ req'[p].op = "create_player"
        /\ (CreateStepAt(p, "insert")
              /\ ~TakenInTeam(req[p].in.teamId, req[p].in.jerseyNumber)) =>
             /\ sent'.res.status = 201
             /\ players' = players \cup {sent'.res.data}
             /\ sent'.res.data.team_id = req[p].in.teamId
             /\ sent'.res.data.jersey_number = req[p].in.jerseyNumber
\* C6: when the create handler looks for the jersey number and a player of the
\* target team holds it, the request is answered 400 'Jersey number already
\* taken' and players is unchanged; when no player of the target team holds it,
\* whatever the other teams' numbers, the handler goes on to the INSERT, which
\* adds the row and answers 201.
C6_JerseyConflictOnCreate == [][C6Step]_vars
\* A player was created with a number another team holds, and the next create
\* with that number on the same team is answered 400.
C6_Witness ==
    /\ Sent("create_player")
    /\ Answered(400, "Jersey number already taken")
    /\ \E pl \in players :
         /\ pl.id > 2
         /\ pl.team_id = sent.in.teamId
         /\ pl.jersey_number = sent.in.jerseyNumber
    /\ \E pl \in players :
         /\ pl.team_id # sent.in.teamId
         /\ pl.jersey_number = sent.in.jerseyNumber

\* C7: a well-formed registration whose code matches no team is answered 400
\* 'Invalid registration code', whether or not its email has a user row; one
\* whose code matches a team and whose email had a user row when it arrived is
\* answered 400 'User already exists'; neither has inserted a user or a
\* membership.
C7_CodeBeforeEmail ==
    [][(sent'.op = "register" /\ sent'.valid) =>
         /\ ~CodeKnown(sent'.in.code) =>
              /\ sent'.res.status = 400
              /\ sent'.res.error = "Invalid registration code"
              /\ sent'.userId = 0
              /\ users' = users /\ team_memberships' = team_memberships
         /\ (CodeKnown(sent'.in.code) /\ sent'.emailTaken) =>
              /\ sent'.res.status = 400
              /\ sent'.res.error = "User already exists"
              /\ sent'.userId = 0
              /\ users' = users /\ team_memberships' = team_memberships]_vars
\* A registration with an unknown code and an email that has a user row is answered.
C7_Witness ==
    /\ SentRegistration
    /\ ~CodeKnown(sent.in.code)
    /\ sent.emailTaken

\* C8: a login answered because no user has the email and a login answered
\* because the password does not match carry the same status and the same
\* body.
C8_LoginEnumerationResistant ==
    (Sent("login") /\ sent.valid /\ sent.found \in {"no_user", "bad_password"})
    => sent.res = [status |-> 401, error |-> "Invalid credentials", data |-> NoData]
\* A login with an email that has no user row is answered.
C8_Witness == Sent("login") /\ sent.valid /\ sent.found = "no_user"

\* C9: at most one user row exists for any normalized email.
C9_OneUserPerEmail ==
    \A u1, u2 \in users :
        NormalizeEmail(u1.email) = NormalizeEmail(u2.email) => u1.id = u2.id
\* A registration raced another one for the same email and lost at the INSERT.
C9_Witness ==
    /\ SentRegistration
    /\ Answered(500, "Registration failed")
    /\ EmailHasUser(sent.in.email)

RowTeams(op, row) ==
    CASE op = "teams" -> {row.id}
      [] op = "stats" -> {pl.team_id : pl \in {x \in players : x.id = row.player_id}}
      [] OTHER -> {row.team_id}
\* C10: every row a GET /api/teams, /api/players, /api/games, /api/stats or
\* /api/media returns belongs to a team that has a membership row for the
\* token's user.
C10_ReadsTenantScoped ==
    (sent.op \in {"teams", "players", "games", "stats", "media"} /\ sent.res.status = 200)
    => \A row \in sent.res.data :
         \E t \in RowTeams(sent.op, row) : HasMembership(sent.user, t)
\* A user who registered has read the players of their team, and not the other team's.
C10_Witness ==
    /\ Sent("players") /\ sent.res.status = 200
    /\ sent.user > 4
    /\ sent.res.data # {}
    /\ \E pl \in players : pl.id \notin {x.id : x \in sent.res.data}

C11Step ==
    /\ teams' = teams
    /\ \A u \in users' \ users : u.role \in {"player", "parent"}
    /\ \A m \in team_memberships' \ team_memberships :
         /\ m.role \in {"player", "parent"}
         /\ \E u \in users' : u.id = m.user_id /\ u.role = m.role
\* C11: no step changes a team (its admin_id included); every user row and
\* every membership row a step creates has role player or parent, and the
\* membership's role is the role of its user.
C11_RegistrationNeverGrantsAdmin == [][C11Step]_vars
\* A registration as parent has created its user and its membership.
C11_Witness ==
    \E u \in users :
        /\ u.id > 4
        /\ u.role = "parent"
        /\ \E m \in team_memberships : m.user_id = u.id /\ m.role = "parent"

(* The step is a profile request that carries the token the client kept. *)
HeldTokenUsed ==
    /\ sent'.op = "profile"
    /\ now' = now
    /\ session # NoData
C12Step ==
    HeldTokenUsed =>
        /\ now < session.token.iat + 7 =>
             /\ sent'.res.status = 200
             /\ sent'.token = "ok"
             /\ sent'.user = session.user.id
             /\ sent'.role = session.user.role
        /\ now > session.token.iat + 7 =>
             /\ sent'.res.status \in {401, 403}
             /\ sent'.token = "invalid"
             /\ sent'.res.data = NoData
\* C12: a token a login issued for a user verifies to that user's id and role
\* on every day before the seventh after its issue, whatever requests were
\* served in between, and is rejected on every day after it.
C12_TokenValidUntilExpiry == [][C12Step]_vars
\* The token a client kept from a login is rejected after its expiry.
C12_Witness ==
    /\ Sent("profile")
    /\ sent.token = "invalid"
    /\ session # NoData
    /\ now > session.token.iat + 7

ProtectedReads == {"profile", "teams", "players", "games", "stats", "media"}
C13Step ==
    (sent'.op \in ProtectedReads /\ sent'.token = "missing") =>
        /\ sent'.res = [status |-> 401, error |-> "", data |-> NoData]
        /\ sent'.user = 0
        /\ tables' = tables
        /\ req' = req
Registered == {u \in users' : u.id > 4}
C14Step ==
    /\ (sent'.op = "register" /\ sent'.res.status = 201) =>
         \E u \in Registered :
            /\ u.id = sent'.res.data.user.id
            /\ u.email = sent'.in.email
            /\ u.role = sent'.in.role
    /\ (sent'.op = "login" /\ sent'.valid) =>
         \A u \in Registered :
            (u.email = sent'.in.email /\ sent'.in.password = "secret1") =>
                /\ sent'.res.status = 200
                /\ sent'.res.data.user.email = u.email
                /\ sent'.res.data.token.userId = u.id
                /\ sent'.res.data.token.role = u.role
    /\ (sent'.op = "profile" /\ session # NoData /\ session' = session) =>
         /\ sent'.res.status = 200
         /\ sent'.role = session.user.role
         /\ sent'.res.data.user.email = session.user.email
\* C14: a registration answered 201 has stored its email and its declared
\* role; every later login with that email and its password is answered 200
\* with a token for that user and that role; and a profile request with a token
\* a client got that way is answered 200 with the same email and verifies to
\* the same role.
C14_RegisterLoginProfile == [][C14Step]_vars
\* A registered user's kept token has fetched the profile.
C14_Witness ==
    /\ Sent("profile")
    /\ sent.res.status = 200
    /\ session # NoData
    /\ session.user.id > 4
    /\ sent.res.data.user.email = session.user.email

C15Step ==
    /\ sent'.op = "login" =>
         /\ users' = users
         /\ teams' = teams
         /\ team_memberships' = team_memberships
    /\ team_memberships' # team_memberships =>
         (sent'.op = "register" /\ sent'.res.status = 201)
\* C15: a step that answers a login, with success or with an error, leaves
\* users, teams and team_memberships as they were; team_memberships changes
\* only in the step that answers a registration with 201.
C15_LoginHasNoStorageEffect == [][C15Step]_vars
\* A user who registered during the run has logged in.
C15_Witness ==
    /\ Sent("login")
    /\ sent.res.status = 200
    /\ sent.res.data.user.id > 4

\* C16: in every reachable state no two players of one team have the same
\* jersey number.
C16_JerseyUniquePerTeam ==
    \A a, b \in players :
        (a.team_id = b.team_id /\ a.jersey_number = b.jersey_number) => a.id = b.id
\* A create or an update passed the handler's jersey check, lost the race for
\* the number and was stopped by the table's constraint.
C16_Witness ==
    /\ sent.op \in {"create_player", "update_player"}
    /\ sent.res.status = 500
    /\ \E pl \in players :
         /\ pl.jersey_number = sent.in.jerseyNumber
         /\ pl.id > 2

\* C17: a PUT /api/players/:id answered 200 returns a row of players, the
\* one it updated, also when a DELETE of the same player runs concurrently.
C17_UpdateSuccessHasRow ==
    (Sent("update_player") /\ sent.res.status = 200) => sent.res.data \in players

PlayerMutations == {"create_player", "update_player", "delete_player"}
(* The request r carries a verified token of the admin of the team it is
   about: the target team of a create, the team that owned the player when an
   update or a delete looked it up. *)
OwnershipConfirmed(r) ==
    /\ r.token = "ok"
    /\ r.user # 0
    /\ \E t \in teams :
         /\ t.admin_id = r.user
         /\ t.id = (IF r.op = "create_player" THEN r.in.teamId ELSE r.teamId)
    /\ r.op # "create_player" =>
         \A pl \in players : pl.id = r.in.id => pl.team_id = r.teamId
C18Inv ==
    \A p \in Procs :
        req[p].op \in PlayerMutations => OwnershipConfirmed(req[p])
C18Step ==
    /\ players' # players =>
         \E p \in Procs :
            /\ req[p].op \in PlayerMutations
            /\ req[p].pc \in {"insert", "update", "delete"}
            /\ OwnershipConfirmed(req[p])
            /\ req'[p] = Idle
    /\ (sent'.op \in PlayerMutations /\ sent'.token # "ok") =>
         /\ sent'.res.status = 401
         /\ sent'.res.data = NoData
         /\ tables' = tables
         /\ req' = req
    /\ (sent'.op \in PlayerMutations /\ sent'.res.status = 403) =>
         /\ sent'.token = "ok"
         /\ tables' = tables
         /\ req' = req
UpdateStepAt(p, pc) ==
    /\ req[p].op = "update_player"
    /\ req[p].pc = pc
    /\ req'[p] # req[p]
KeepsNumber(r) ==
    \E pl \in players : pl.id = r.in.id /\ pl.jersey_number = r.in.jerseyNumber
HeldByAnother(r) ==
    \E pl \in players :
        /\ pl.team_id = r.teamId
        /\ pl.jersey_number = r.in.jerseyNumber
        /\ pl.id # r.in.id
JerseyConflict == [status |-> 400, error |-> "Jersey number already taken", data |-> NoData]
C19Step ==
    \A p \in Procs :
        /\ UpdateStepAt(p, "jersey_check") =>
             /\ KeepsNumber(req[p]) => (sent' = NoAnswer /\ req'[p].pc = "update")
             /\ HeldByAnother(req[p]) =>
                  /\ sent'.op = "update_player"
                  /\ sent'.res = JerseyConflict
                  /\ players' = players
             /\ ~HeldByAnother(req[p]) => sent' = NoAnswer
        /\ (UpdateStepAt(p, "update") /\ KeepsNumber(req[p])) =>
             /\ sent'.res.status = 200
             /\ sent'.res.data \in players'
             /\ sent'.res.data.jersey_number = req[p].in.jerseyNumber
\* C19: when the update handler of the team admin's request looks for the
\* jersey number, a number the edited player already has is never a conflict
\* and the update is applied and answered 200; a number another player of the
\* team holds is answered 400 'Jersey number already taken' and players is
\* unchanged.
C19_UpdateConflictExcludesSelf == [][C19Step]_vars
\* An update to the number of a teammate was answered 400 and both rows remain.
C19_Witness ==
    /\ Sent("update_player")
    /\ sent.res = JerseyConflict
    /\ \E pl, other \in players :
         /\ pl.id = sent.in.id
         /\ pl.jersey_number # sent.in.jerseyNumber
         /\ other.id # pl.id
         /\ other.team_id = pl.team_id
         /\ other.jersey_number = sent.in.jerseyNumber

ReportsOf(rows, playerId) == {sr \in rows : sr.player_id = playerId}
C20Inv == \A a, b \in scouting_reports : a.player_id = b.player_id => a = b
C20Step ==
    /\ (sent'.op = "scouting" /\ sent'.res.status = 201) =>
         /\ ReportsOf(scouting_reports', sent'.in.playerId) =
               {[player_id |-> sent'.in.playerId, scout_id |-> sent'.user,
                 overall_grade |-> sent'.in.overallGrade]}
         /\ \A id \in PlayerIds \ {sent'.in.playerId} :
               ReportsOf(scouting_reports', id) = ReportsOf(scouting_reports, id)
    /\ scouting_reports' # scouting_reports =>
         \/ sent'.op = "scouting" /\ sent'.res.status = 201
         \/ sent'.op = "delete_player" /\ sent'.res.status = 200
\* C20: there is at most one scouting report per player; the step that answers
\* a write with 201 leaves, as the player's only report, the one with the
\* values and the scout_id of that write, and the reports of the other players
\* as they were; apart from the deletion of its player, nothing else changes a
\* report.
C20_OneReportLastWriteWins == []C20Inv /\ [][C20Step]_vars
\* A write for a player was answered 201 and is the player's report while the
\* write of another user for the same player, with another grade, is in flight.
C20_Witness ==
    /\ Sent("scouting")
    /\ sent.res.status = 201
    /\ sent.res.data \in scouting_reports
    /\ \E p \in Procs :
         /\ req[p].op = "scouting"
         /\ req[p].in.playerId = sent.in.playerId
         /\ req[p].user # sent.user
         /\ req[p].in.overallGrade # sent.in.overallGrade
         /\ req[p].in.overallGrade <= 10

(* C21: In every reachable state every player_stats row and every
   scouting_reports row references an existing player; and a step that answers
   DELETE /api/players/:id with 200 leaves no players row, no player_stats row
   and no scouting_reports row of that player, and leaves the rows of every
   other player in the three tables as they were. *)
C21Inv ==
    /\ \A ps \in player_stats : \E pl \in players : pl.id = ps.player_id
    /\ \A sr \in scouting_reports : \E pl \in players : pl.id = sr.player_id
C21Step ==
    (sent'.op = "delete_player" /\ sent'.res.status = 200) =>
        LET id == sent'.in.id
        IN  /\ players' = {pl \in players : pl.id # id}
            /\ player_stats' = {ps \in player_stats : ps.player_id # id}
            /\ scouting_reports' = {sr \in scouting_reports : sr.player_id # id}
            /\ \A pl \in players' : pl.id # id
C21_CascadeDelete == []C21Inv /\ [][C21Step]_vars
\* A delete was answered 200 while another user's scouting report for the same
\* player is still to be written; the statistics of the other player are kept.
C21_Witness ==
    /\ Sent("delete_player") /\ sent.res.status = 200
    /\ \A pl \in players : pl.id # sent.in.id
    /\ \A ps \in player_stats : ps.player_id # sent.in.id
    /\ player_stats # {}
    /\ \E p \in Procs : /\ At(p, "scouting", "upsert")
                        /\ req[p].in.playerId = sent.in.id
                        /\ req[p].in.overallGrade \in MinGrade..MaxGrade

(* C22: Startup always ends in one of two outcomes.  The process listens only
   after a probe of the database succeeded and setupDemoData returned; it
   exits only after 10 probes that all failed; it never probes more than 10
   times; a process that listens does not exit and a process that exited does
   not listen; and every start reaches one of the two. *)
StartupOver == server.pc \in {"listening", "exited"}
C22Inv ==
    /\ server.probes <= 10
    /\ server.pc = "listening" => server.connected /\ server.seeded
    /\ server.pc = "exited" => server.probes = 10 /\ ~server.connected
    /\ server.pc \in SeedingPcs \cup {"listen"} => server.connected
C22Step ==
    /\ (StartupOver /\ server'.starts = server.starts) => server'.pc = server.pc
    /\ (server'.pc = "listening" /\ server.pc # "listening") =>
           server.connected /\ server.seeded
C22_StartupOutcomes ==
    /\ []C22Inv
    /\ [][C22Step]_vars
    /\ (~StartupOver) ~> StartupOver
\* The first process listened over the demo data it seeded; the second one
\* exited after its tenth failed probe.
C22_Witness ==
    /\ server.starts = 2
    /\ server.pc = "exited"
    /\ server.probes = 10
    /\ games # {}

(* C23: Demo seeding is idempotent: once the database holds the demo data
   (the three users, the team TEAM123, their memberships, the three players
   and the games of the team), no step of setupDemoData changes users, teams,
   team_memberships, players or games, however often the server is started. *)
DemoDataPresent ==
    /\ \A i \in DOMAIN DemoUsers : \E u \in users : u.email = DemoUsers[i].email
    /\ \E t \in teams :
         /\ t.invite_code = TEAM123
         /\ \A u \in users :
               (\E i \in DOMAIN DemoUsers : u.email = DemoUsers[i].email) =>
                   \E tm \in team_memberships : tm.user_id = u.id /\ tm.team_id = t.id
         /\ \A i \in DOMAIN DemoJerseys :
               \E pl \in players : pl.team_id = t.id /\ pl.jersey_number = DemoJerseys[i]
         /\ Cardinality({g \in games : g.team_id = t.id}) >= DemoGames
C23Step ==
    DemoDataPresent => UNCHANGED <<users, teams, team_memberships, players, games>>
C23_SeedingIdempotent == [][C23Step]_vars

====
